---------------------------- MODULE Spec2Model ----------------------------
(***************************************************************************)
(* Model of the sensor data generator (src/src/data_generator.py) and of   *)
(* the dashboard readers of its files (src/src/app.py).                    *)
(*                                                                         *)
(* Sensor values are integers in thousandths of the sensor's unit          *)
(* (22.0 is 22000), so that the rounding to 2 decimals is visible.         *)
(* Times are integers in seconds.                                          *)
(*                                                                         *)
(* The specifications share the variables:                                 *)
(*   SpecClassify  one call of generate_value on the signal path           *)
(*   SpecAnomaly   the tick loop's consult of manual_anomalies interleaved *)
(*                 with add_manual_anomaly                                 *)
(*   SpecHistory   sequences of save_history_data calls on one file        *)
(*   SpecTick      the ticks of one loop, the content of the files they    *)
(*                 write, and the dashboard's readers of those files       *)
(*   Spec          start / stop / the sampling loop and its files, with a  *)
(*                 reader of current_data.json                             *)
(*   SpecFair      Spec under fair scheduling of the threads               *)
(*   SpecDuo       start / stop called by two threads at once              *)
(*   SpecDay       the history files of successive days under one loop     *)
(*   SpecReaders   the history readers on the files of the last days       *)
(***************************************************************************)
EXTENDS Integers, Sequences, FiniteSets, TLC

VARIABLES
    \* ---- generate_value, signal path (SpecClassify)
    sensor_type,        \* device["type"] of the call
    trend_component,    \* local of generate_value
    random_component,   \* local of generate_value
    value,              \* local `value` before rounding
    result,             \* the returned (value, status); NoResult before the call
    \* ---- manual anomalies against the tick loop (SpecAnomaly)
    now,                \* time.time()
    manual_anomalies,   \* self.manual_anomalies: device id -> entry or NoEntry
    apc,                \* position of the loop thread in generate_data/generate_value
    timestamp,          \* local `timestamp` of the tick
    adev,               \* index in self.devices of the device being generated
    anomaly,            \* local `anomaly` of generate_value (the entry object read)
    data_batch,         \* local `data_batch` of the tick
    wake,               \* time at which time.sleep(5) returns
    tickNo,             \* number of ticks started
    lastSet,            \* per device, the latest install: [value, end_time, tick]
                        \* and shortened: it replaced an entry that ended later
    sets,               \* number of add_manual_anomaly calls made
    \* ---- save_history_data (SpecHistory)
    history_file,       \* history_<date>.json: [exists, ok, data]
    hpc,                \* position in save_history_data
    hbatch,             \* parameter `data_batch` of the call
    history_data,       \* local `history_data` of the call
    nextRec,            \* next fresh record id
    saves,              \* number of calls begun
    lastCall,           \* the latest call: [existing, batch, done, found]
    \* ---- lifecycle, loop and files (Spec)
    running,            \* self.running
    thread,             \* self.thread: 0 is None, else a thread id
    tstate,             \* per thread id: its state / position in generate_data
    tdev,               \* per thread id: index of the device of the for loop
    ttick,              \* per thread id: the tick it is executing (0: none)
    cpc,                \* per caller: position in start() / stop()
    cthr,               \* per caller: the thread its stop() joins
    ticks,              \* number of ticks started by any loop
    device_file,        \* per device: tick whose reading <device_id>.json holds
    current_data,       \* current_data.json: [exists, tick, closed]
    history_ticks,      \* the history file, one tick number per batch in it
    failed,             \* per thread id: a persistence call raised in it
    completed,          \* ticks whose three persistence stages all completed
    lastOp,             \* per caller: how its last call went
    stopView,           \* per caller: the ticks in flight when its stop() was called
    stopped,            \* the thread joined by the last stop() that returned
    read_result,        \* what the last get_current_data() returned
    \* ---- the files of a tick and their readers (SpecTick)
    snapshot_file,      \* current_data.json: [exists, ok, data]
    device_files,       \* per catalog index, <device_id>.json: [exists, ok, data]
    reader,             \* the last call of a dashboard reader: [fn, found, raised, data]
    \* ---- the history files of several days (SpecDay, SpecReaders)
    day_files,          \* per day number, the records of history_<date>.json
    wall,               \* datetime.now() of the dashboard
    query               \* the last call of a history reader: [fn, device_id, hours, data]

cvars == <<sensor_type, trend_component, random_component, value, result>>
avars == <<now, manual_anomalies, apc, timestamp, adev, anomaly, data_batch,
           wake, tickNo, lastSet, sets>>
hvars == <<history_file, hpc, hbatch, history_data, nextRec, saves, lastCall>>
lvars == <<running, thread, tstate, tdev, ttick, cpc, cthr, ticks, device_file,
           current_data, history_ticks, failed, completed, lastOp, stopView,
           stopped, read_result>>
kvars == <<snapshot_file, device_files, reader>>
dvars == <<day_files, wall, query>>
vars  == <<cvars, avars, hvars, lvars, kvars, dvars>>

\* no (value, status) returned yet
NoResult == [value |-> 0, status |-> "none"]

-----------------------------------------------------------------------------
(* SensorCatalog *)

SensorTypes == <<"temperature", "humidity", "pressure", "vibration", "noise", "power">>

sensor_configs ==
    [t \in {SensorTypes[i] : i \in 1..Len(SensorTypes)} |->
       CASE t = "temperature" ->
              [base_value |-> 22000, normal_range |-> <<15000, 30000>>,
               warning_range |-> <<10000, 35000>>, variance |-> 500,
               trend_amplitude |-> 5000]
         [] t = "humidity" ->
              [base_value |-> 45000, normal_range |-> <<30000, 60000>>,
               warning_range |-> <<20000, 70000>>, variance |-> 2000,
               trend_amplitude |-> 15000]
         [] t = "pressure" ->
              [base_value |-> 101300, normal_range |-> <<99000, 103000>>,
               warning_range |-> <<98000, 104000>>, variance |-> 200,
               trend_amplitude |-> 1000]
         [] t = "vibration" ->
              [base_value |-> 15000, normal_range |-> <<5000, 25000>>,
               warning_range |-> <<2000, 35000>>, variance |-> 1000,
               trend_amplitude |-> 3000]
         [] t = "noise" ->
              [base_value |-> 65000, normal_range |-> <<50000, 75000>>,
               warning_range |-> <<45000, 85000>>, variance |-> 2000,
               trend_amplitude |-> 10000]
         [] OTHER ->
              [base_value |-> 2500, normal_range |-> <<1000, 4000>>,
               warning_range |-> <<500, 5000>>, variance |-> 300,
               trend_amplitude |-> 1500]]

TypeSet == DOMAIN sensor_configs

\* 3 devices of each type
DevicesPerType == 3

\* a catalog whose devices of a type all get the number 01
devicesSameNumber ==
    [k \in 1..(Len(SensorTypes) * DevicesPerType) |->
       [device_id |-> <<SensorTypes[((k - 1) \div DevicesPerType) + 1], 1>>,
        type |-> SensorTypes[((k - 1) \div DevicesPerType) + 1]]]

\* self.devices, in the order __init__ appends them: [device_id, type]
devices ==
    [k \in 1..(Len(SensorTypes) * DevicesPerType) |->
       [device_id |-> <<SensorTypes[((k - 1) \div DevicesPerType) + 1],
                        ((k - 1) % DevicesPerType) + 1>>,
        type |-> SensorTypes[((k - 1) \div DevicesPerType) + 1]]]

-----------------------------------------------------------------------------
(* generate_value: the signal path *)

\* a random anomaly whose magnitude is taken from half the normal width
SignalValueHalfWidth(config, trend, noise, fires, direction, u) ==
    LET v0 == config.base_value + trend + noise
        anomaly_magnitude ==
            (((config.normal_range[2] - config.normal_range[1]) \div 2) * u) \div 1000
    IN  IF fires THEN v0 + direction * anomaly_magnitude ELSE v0

\* value = base_value + trend_component + random_component,
\* then the random anomaly: value + direction * (normal width * uniform(1.2, 1.5))
\* u is the uniform draw in thousandths
SignalValue(config, trend, noise, fires, direction, u) ==
    LET v0 == config.base_value + trend + noise
        anomaly_magnitude ==
            ((config.normal_range[2] - config.normal_range[1]) * u) \div 1000
    IN  IF fires THEN v0 + direction * anomaly_magnitude ELSE v0

\* a comparison of the classification slipped from > to >=
StatusInclusiveMax(config, v) ==
    LET s1 == IF v < config.normal_range[1] \/ v >= config.normal_range[2]
              THEN "warning" ELSE "normal"
    IN  IF v < config.warning_range[1] \/ v > config.warning_range[2]
        THEN "critical" ELSE s1

\* status = "normal"; two ifs in sequence, the second overriding the first
Status(config, v) ==
    LET s1 == IF v < config.normal_range[1] \/ v > config.normal_range[2]
              THEN "warning" ELSE "normal"
    IN  IF v < config.warning_range[1] \/ v > config.warning_range[2]
        THEN "critical" ELSE s1

\* round(value, 2): to the nearest hundredth, a tie to the even hundredth
Round2(v) ==
    LET q == v \div 10
        r == v % 10
    IN  IF r < 5 THEN q * 10
        ELSE IF r > 5 THEN (q + 1) * 10
        ELSE IF q % 2 = 0 THEN q * 10 ELSE (q + 1) * 10


-----------------------------------------------------------------------------
(* States of the parts a specification leaves alone: the state after *)
(* construction, before any call.                                    *)

NoEntry == [value |-> 0, end_time |-> -1, set |-> FALSE]

ClassifyIdle ==
    /\ sensor_type = "temperature"
    /\ trend_component = 0
    /\ random_component = 0
    /\ value = 0
    /\ result = NoResult


\* time.sleep(5)
TickInterval == 5

\* the first catalog devices the modelled tick iterates over
NDev == 1

\* an id that is in no catalog entry
UnknownId == <<"unknown", 1>>

AnomalyIds == {devices[k].device_id : k \in 1..NDev} \cup {UnknownId}

NoSet == [value |-> 0, end_time |-> -1, tick |-> 0, set |-> FALSE,
          shortened |-> FALSE]

\* __init__: self.manual_anomalies = {}; the loop thread is at `while self.running`
AnomalyIdle ==
    /\ now = 0
    /\ manual_anomalies = [d \in AnomalyIds |-> NoEntry]
    /\ apc = "loop"
    /\ timestamp = 0
    /\ adev = 1
    /\ anomaly = NoEntry
    /\ data_batch = <<>>
    /\ wake = 0
    /\ tickNo = 0
    /\ lastSet = [d \in AnomalyIds |-> NoSet]
    /\ sets = 0

\* no file of that name in the data directory
NoFile == [exists |-> FALSE, ok |-> FALSE, data |-> <<>>]

\* a file cut short by a failed write, holding the records written before the
\* failure: json.load raises JSONDecodeError on it
BrokenFile(content) == [exists |-> TRUE, ok |-> FALSE, data |-> content]

NoCall == [existing |-> <<>>, batch |-> <<>>, done |-> FALSE, found |-> "none"]

HistoryIdle ==
    /\ history_file = NoFile
    /\ hpc = "idle"
    /\ hbatch = <<>>
    /\ history_data = <<>>
    /\ nextRec = 1
    /\ saves = 0
    /\ lastCall = NoCall

\* the threads that call start() and stop()
AllCallers == {"c1", "c2"}

\* at most this many Thread objects are created
MaxThreads == 2

\* at most this many ticks are started
MaxTicks == 3

\* the first catalog devices the loop of Spec iterates over
LDev == 2

Threads == 1..MaxThreads

\* no current_data.json yet
NoSnapshot == [exists |-> FALSE, tick |-> 0, closed |-> FALSE]

\* get_current_data() not called yet
NoRead == [done |-> FALSE, tick |-> 0, after |-> FALSE]

\* __init__: self.running = False; self.thread = None; an empty data directory
LifeIdle ==
    /\ running = FALSE
    /\ thread = 0
    /\ tstate = [t \in Threads |-> "unborn"]
    /\ tdev = [t \in Threads |-> 1]
    /\ ttick = [t \in Threads |-> 0]
    /\ cpc = [c \in AllCallers |-> "idle"]
    /\ cthr = [c \in AllCallers |-> 0]
    /\ ticks = 0
    /\ device_file = [k \in 1..LDev |-> 0]
    /\ current_data = NoSnapshot
    /\ history_ticks = <<>>
    /\ failed = [t \in Threads |-> FALSE]
    /\ completed = {}
    /\ lastOp = [c \in AllCallers |-> "none"]
    /\ stopView = [c \in AllCallers |-> {}]
    /\ stopped = 0
    /\ read_result = NoRead

\* len(self.devices) in SpecHistory and SpecTick
HDev == 2

\* no reader has been called yet
NoReader == [fn |-> "none", found |-> "none", raised |-> FALSE, data |-> <<>>]

\* an empty data directory, and no reader called
TickIdle ==
    /\ snapshot_file = NoFile
    /\ device_files = [k \in 1..HDev |-> NoFile]
    /\ reader = NoReader

\* the history files of this many days before today can be on disk
MaxDays == 9

\* no history reader has been called yet
NoQuery == [fn |-> "none", device_id |-> <<"none", 0>>, hours |-> 0, data |-> <<>>]

\* no history file of any day
DayIdle ==
    /\ day_files = [d \in 0..MaxDays |-> <<>>]
    /\ wall = 0
    /\ query = NoQuery

-----------------------------------------------------------------------------
(* SpecClassify: one call of generate_value for a device without a manual *)
(* anomaly. The inputs are the sine of the trend at its extremes and at   *)
(* zero, and a Gaussian draw that puts base + trend + noise at or next to *)
(* one of the four thresholds of the type.                                *)

Offsets == {-10, -6, -4, -1, 0, 1, 4, 6, 10}

Thresholds(config) ==
    {config.normal_range[1], config.normal_range[2],
     config.warning_range[1], config.warning_range[2]}

Targets(config) ==
    {t + o : t \in Thresholds(config), o \in Offsets} \cup {config.base_value}

\* random.uniform(1.2, 1.5), in thousandths
UniformDraws == {1200, 1350, 1500}

ClassifyInputs ==
    /\ sensor_type \in TypeSet
    /\ trend_component \in {-sensor_configs[sensor_type].trend_amplitude, 0,
                            sensor_configs[sensor_type].trend_amplitude}
    /\ random_component \in
         {t - sensor_configs[sensor_type].base_value - trend_component :
            t \in Targets(sensor_configs[sensor_type])}
    /\ value = 0
    /\ result = NoResult

\* generate_value past the manual-anomaly check: lines 125-150
GenerateValue ==
    /\ result = NoResult
    /\ \E fires \in BOOLEAN, direction \in {1, -1}, u \in UniformDraws :
         LET config == sensor_configs[sensor_type]
             v == SignalValue(config, trend_component, random_component,
                              fires, direction, u)
         IN  /\ value' = v
             /\ result' = [value |-> Round2(v), status |-> Status(config, v)]
    /\ UNCHANGED <<sensor_type, trend_component, random_component>>
    /\ UNCHANGED <<avars, hvars, lvars, kvars, dvars>>

InitClassify ==
    /\ ClassifyInputs
    /\ AnomalyIdle
    /\ HistoryIdle
    /\ LifeIdle
    /\ TickIdle
    /\ DayIdle

NextClassify == GenerateValue

SpecClassify == InitClassify /\ [][NextClassify]_vars

-----------------------------------------------------------------------------
(* SpecAnomaly: the loop thread runs ticks over the first NDev devices and *)
(* another thread calls add_manual_anomaly at any moment. The code takes   *)
(* no lock: the loop thread can be descheduled between any two of the      *)
(* membership test, the read of the entry, the comparison and the del,     *)
(* each of which is atomic on the dict.                                    *)

\* the clock is followed for this many polling intervals
MaxTime == 2

\* add_manual_anomaly is called at most this often
MaxSets == 2

\* the `value` argument of the k-th call, a different one for each call:
\* outside the warning range of a temperature device, or inside its normal
\* range and not a multiple of 0.01
ManualValue(k) == IF k % 2 = 1 THEN 45000 + 1000 * k ELSE 25004 + 10 * k

\* the `duration` arguments tried
Durations == {0, 6}

\* the Gaussian draws tried on the signal path of a tick
TickNoise == {9004}

\* time passes, observed once per polling interval
Advance ==
    /\ now < MaxTime * TickInterval
    /\ now' = now + TickInterval
    /\ UNCHANGED <<manual_anomalies, apc, timestamp, adev, anomaly, data_batch,
                   wake, tickNo, lastSet, sets>>
    /\ UNCHANGED <<cvars, hvars, lvars, kvars, dvars>>

\* the entry add_manual_anomaly stores
NewEntry(v, duration) ==
    [value |-> v, end_time |-> now + duration, set |-> TRUE]

\* the call as its caller made it: the arguments, the time and what was in
\* the table for d
CallRecord(d, v, duration) ==
    [value |-> v, end_time |-> now + duration, tick |-> tickNo, set |-> TRUE,
     shortened |-> manual_anomalies[d].end_time > now + duration]

\* add_manual_anomaly that keeps the later of the old and the new end_time
AddManualAnomalyKeepsLater ==
    /\ sets < MaxSets
    /\ sets' = sets + 1
    /\ \E d \in AnomalyIds, v \in {ManualValue(sets + 1)}, duration \in Durations :
         /\ manual_anomalies' =
              [manual_anomalies EXCEPT ![d] =
                 [NewEntry(v, duration) EXCEPT !.end_time =
                     IF manual_anomalies[d].end_time > now + duration
                     THEN manual_anomalies[d].end_time ELSE now + duration]]
         /\ lastSet' = [lastSet EXCEPT ![d] = CallRecord(d, v, duration)]
    /\ UNCHANGED <<now, apc, timestamp, adev, anomaly, data_batch, wake, tickNo>>
    /\ UNCHANGED <<cvars, hvars, lvars, kvars, dvars>>

\* add_manual_anomaly(device_id, value, duration): one dict store
AddManualAnomaly ==
    /\ sets < MaxSets
    /\ sets' = sets + 1
    /\ \E d \in AnomalyIds, v \in {ManualValue(sets + 1)}, duration \in Durations :
         /\ manual_anomalies' = [manual_anomalies EXCEPT ![d] = NewEntry(v, duration)]
         /\ lastSet' = [lastSet EXCEPT ![d] = CallRecord(d, v, duration)]
    /\ UNCHANGED <<now, apc, timestamp, adev, anomaly, data_batch, wake, tickNo>>
    /\ UNCHANGED <<cvars, hvars, lvars, kvars, dvars>>

\* the reading appended for the device of the for loop
Reading(v, status) ==
    [device_id |-> devices[adev].device_id, value |-> v, status |-> status]

\* data_batch.append(sensor_data), then the next device or the end of the for loop
AppendReading(v, status) ==
    /\ data_batch' = Append(data_batch, Reading(v, status))
    /\ IF adev < NDev
       THEN adev' = adev + 1 /\ apc' = "gv_in"
       ELSE adev' = adev /\ apc' = "persist"

\* while self.running: timestamp = time.time(); data_batch = []
TickBegin ==
    /\ apc = "loop"
    /\ timestamp' = now
    /\ data_batch' = <<>>
    /\ adev' = 1
    /\ tickNo' = tickNo + 1
    /\ apc' = "gv_in"
    /\ UNCHANGED <<now, manual_anomalies, anomaly, wake, lastSet, sets>>
    /\ UNCHANGED <<cvars, hvars, lvars, kvars, dvars>>

\* if device["device_id"] in self.manual_anomalies
ConsultIn ==
    /\ apc = "gv_in"
    /\ apc' = IF manual_anomalies[devices[adev].device_id].set
              THEN "gv_read" ELSE "gv_model"
    /\ UNCHANGED <<now, manual_anomalies, timestamp, adev, anomaly, data_batch,
                   wake, tickNo, lastSet, sets>>
    /\ UNCHANGED <<cvars, hvars, lvars, kvars, dvars>>

\* a lookup that takes the entry of any key of the table
ConsultReadAnyKey ==
    /\ apc = "gv_read"
    /\ \E d \in AnomalyIds :
         /\ manual_anomalies[d].set
         /\ anomaly' = manual_anomalies[d]
    /\ apc' = "gv_cmp"
    /\ UNCHANGED <<now, manual_anomalies, timestamp, adev, data_batch, wake,
                   tickNo, lastSet, sets>>
    /\ UNCHANGED <<cvars, hvars, lvars, kvars, dvars>>

\* anomaly = self.manual_anomalies[device["device_id"]]
ConsultRead ==
    /\ apc = "gv_read"
    /\ anomaly' = manual_anomalies[devices[adev].device_id]
    /\ apc' = "gv_cmp"
    /\ UNCHANGED <<now, manual_anomalies, timestamp, adev, data_batch, wake,
                   tickNo, lastSet, sets>>
    /\ UNCHANGED <<cvars, hvars, lvars, kvars, dvars>>

\* if anomaly["end_time"] >= timestamp: return anomaly["value"], "critical"
ConsultCompare ==
    /\ apc = "gv_cmp"
    /\ IF anomaly.end_time >= timestamp
       THEN AppendReading(anomaly.value, "critical")
       ELSE apc' = "gv_del" /\ UNCHANGED <<adev, data_batch>>
    /\ anomaly' = NoEntry
    /\ UNCHANGED <<now, manual_anomalies, timestamp, wake, tickNo,
                   lastSet, sets>>
    /\ UNCHANGED <<cvars, hvars, lvars, kvars, dvars>>

\* an eviction branch that forgets the del
DeleteNothing(d) ==
    manual_anomalies

\* the table after del self.manual_anomalies[d]: whatever entry d has now
Delete(d) ==
    [manual_anomalies EXCEPT ![d] = NoEntry]

\* del self.manual_anomalies[device["device_id"]]
ConsultDelete ==
    /\ apc = "gv_del"
    /\ manual_anomalies' = Delete(devices[adev].device_id)
    /\ apc' = "gv_model"
    /\ UNCHANGED <<now, timestamp, adev, anomaly, data_batch, wake, tickNo,
                   lastSet, sets>>
    /\ UNCHANGED <<cvars, hvars, lvars, kvars, dvars>>

\* the signal path: lines 125-150
ConsultModel ==
    /\ apc = "gv_model"
    /\ \E noise \in TickNoise :
         LET config == sensor_configs[devices[adev].type]
             v == SignalValue(config, 0, noise, FALSE, 1, 1200)
         IN  AppendReading(Round2(v), Status(config, v))
    /\ UNCHANGED <<now, manual_anomalies, timestamp, anomaly, wake, tickNo,
                   lastSet, sets>>
    /\ UNCHANGED <<cvars, hvars, lvars, kvars, dvars>>

\* the batch is written (lines 191-198) and time.sleep(5) begins; the locals
\* of the iteration are not read again before they are reassigned
Persist ==
    /\ apc = "persist"
    /\ wake' = now + TickInterval
    /\ apc' = "sleep"
    /\ timestamp' = 0
    /\ data_batch' = <<>>
    /\ adev' = 1
    /\ UNCHANGED <<now, manual_anomalies, anomaly, tickNo, lastSet, sets>>
    /\ UNCHANGED <<cvars, hvars, lvars, kvars, dvars>>

\* time.sleep(5) returns
Wake ==
    /\ apc = "sleep"
    /\ now >= wake
    /\ apc' = "loop"
    /\ UNCHANGED <<now, manual_anomalies, timestamp, adev, anomaly, data_batch,
                   wake, tickNo, lastSet, sets>>
    /\ UNCHANGED <<cvars, hvars, lvars, kvars, dvars>>

InitAnomaly ==
    /\ ClassifyIdle
    /\ AnomalyIdle
    /\ HistoryIdle
    /\ LifeIdle
    /\ TickIdle
    /\ DayIdle

NextAnomaly ==
    \/ Advance
    \/ AddManualAnomaly
    \/ TickBegin
    \/ ConsultIn
    \/ ConsultRead
    \/ ConsultCompare
    \/ ConsultDelete
    \/ ConsultModel
    \/ Persist
    \/ Wake

SpecAnomaly == InitAnomaly /\ [][NextAnomaly]_vars

-----------------------------------------------------------------------------
(* SpecHistory: calls of save_history_data on one history file, each with *)
(* the batch of one tick (one record per device, records numbered in the  *)
(* order they are produced), and the dashboard's removal of the file.     *)

\* stands for 24 * 60 * 60 / 5 = 17280, the records per device of max_records
HPerDevice == 2

\* at most this many calls
MaxSaves == 8

\* max_records = int(24 * 60 * 60 / 5 * len(self.devices))
max_records == HPerDevice * HDev

\* a slice that keeps the head of the list instead of its tail
KeepFirst(seq, m) ==
    SubSeq(seq, 1, IF m < Len(seq) THEN m ELSE Len(seq))

\* seq[-m:] of a Python list: the last m items, all of them when m = 0 or
\* m >= len(seq)
NegSlice(seq, m) ==
    IF m = 0 \/ m >= Len(seq) THEN seq
    ELSE SubSeq(seq, Len(seq) - m + 1, Len(seq))

\* an insert of the batch at the head of the list instead of extend
ExtendedAtHead(existing, batch) ==
    LET all == batch \o existing
    IN  IF Len(all) > max_records THEN NegSlice(all, max_records) ELSE all

\* history_data.extend(data_batch) and the cut to max_records: lines 233-239
Extended(existing, batch) ==
    LET all == existing \o batch
    IN  IF Len(all) > max_records THEN NegSlice(all, max_records) ELSE all

\* what the call finds under file_path
Found ==
    IF ~history_file.exists THEN "missing"
    ELSE IF history_file.ok THEN "array" ELSE "broken"

\* the call begins: history_data = []; if os.path.exists(file_path)
SaveExists ==
    /\ hpc = "idle"
    /\ saves < MaxSaves
    /\ saves' = saves + 1
    /\ hbatch' = [i \in 1..HDev |-> nextRec + i - 1]
    /\ nextRec' = nextRec + HDev
    /\ history_data' = <<>>
    /\ lastCall' = [existing |-> <<>>, batch |-> hbatch', done |-> FALSE,
                    found |-> Found]
    /\ hpc' = IF history_file.exists THEN "load" ELSE "write"
    /\ UNCHANGED history_file
    /\ UNCHANGED <<cvars, avars, lvars, kvars, dvars>>

\* a load that salvages the records of a file it cannot parse to the end
SaveLoadSalvages ==
    /\ hpc = "load"
    /\ history_file.exists
    /\ history_data' = history_file.data
    /\ lastCall' = [lastCall EXCEPT !.existing = history_data', !.found = Found]
    /\ hpc' = "write"
    /\ UNCHANGED <<history_file, hbatch, nextRec, saves>>
    /\ UNCHANGED <<cvars, avars, lvars, kvars, dvars>>

\* open(file_path, 'r') and json.load, [] on JSONDecodeError
SaveLoad ==
    /\ hpc = "load"
    /\ history_file.exists
    /\ history_data' = IF history_file.ok THEN history_file.data ELSE <<>>
    /\ lastCall' = [lastCall EXCEPT !.existing = history_data', !.found = Found]
    /\ hpc' = "write"
    /\ UNCHANGED <<history_file, hbatch, nextRec, saves>>
    /\ UNCHANGED <<cvars, avars, lvars, kvars, dvars>>

\* open(file_path, 'r') on a file removed since the test: FileNotFoundError,
\* which save_history_data does not catch
SaveLoadFails ==
    /\ hpc = "load"
    /\ ~history_file.exists
    /\ lastCall' = NoCall
    /\ hpc' = "idle"
    /\ history_data' = <<>>
    /\ hbatch' = <<>>
    /\ UNCHANGED <<history_file, nextRec, saves>>
    /\ UNCHANGED <<cvars, avars, lvars, kvars, dvars>>

\* extend, cut, open(file_path, 'w') and json.dump
SaveWrite ==
    /\ hpc = "write"
    /\ history_file' = [exists |-> TRUE, ok |-> TRUE,
                        data |-> Extended(history_data, hbatch)]
    /\ lastCall' = [existing |-> history_data, batch |-> hbatch, done |-> TRUE,
                    found |-> lastCall.found]
    /\ hpc' = "idle"
    /\ history_data' = <<>>
    /\ hbatch' = <<>>
    /\ UNCHANGED <<nextRec, saves>>
    /\ UNCHANGED <<cvars, avars, lvars, kvars, dvars>>

\* the write raises OSError: in open(file_path, 'w'), which leaves the file as
\* it was, or in json.dump after open has emptied the file and some of the
\* records have been written
SaveWriteFails ==
    /\ hpc = "write"
    /\ \/ history_file' = history_file
       \/ \E n \in 0..(Len(Extended(history_data, hbatch)) - 1) :
             history_file' =
                 BrokenFile(SubSeq(Extended(history_data, hbatch), 1, n))
    /\ lastCall' = NoCall
    /\ hpc' = "idle"
    /\ history_data' = <<>>
    /\ hbatch' = <<>>
    /\ UNCHANGED <<nextRec, saves>>
    /\ UNCHANGED <<cvars, avars, lvars, kvars, dvars>>

\* the settings page: os.remove of every history_ file
ClearHistory ==
    /\ history_file.exists
    /\ history_file' = NoFile
    /\ UNCHANGED <<hpc, hbatch, history_data, nextRec, saves, lastCall>>
    /\ UNCHANGED <<cvars, avars, lvars, kvars, dvars>>

InitHistory ==
    /\ ClassifyIdle
    /\ AnomalyIdle
    /\ HistoryIdle
    /\ LifeIdle
    /\ TickIdle
    /\ DayIdle

NextHistory ==
    \/ SaveExists
    \/ SaveLoad
    \/ SaveLoadFails
    \/ SaveWrite
    \/ SaveWriteFails
    \/ ClearHistory

SpecHistory == InitHistory /\ [][NextHistory]_vars

-----------------------------------------------------------------------------
(* Spec: one thread calls start() and stop() in any order, the threads     *)
(* start() creates run generate_data over the first LDev devices, any      *)
(* persistence call of a tick may raise OSError, and the dashboard calls   *)
(* get_current_data() at any moment. generate_data has no try/except: an   *)
(* exception ends the thread and leaves self.running as it is.             *)

\* the callers of this specification
SoloCallers == {"c1"}

\* states of a thread that has been started and has not ended
AliveStates == {"check", "device", "snapshot", "dump", "history", "sleep"}

\* states of a thread inside a tick
TickStates == {"device", "snapshot", "dump", "history"}

Alive == {t \in Threads : tstate[t] \in AliveStates}

Unborn == {t \in Threads : tstate[t] = "unborn"}

\* the ticks being executed
InFlight == {ttick[t] : t \in {u \in Threads : tstate[u] \in TickStates}}

\* start() that spawns only while self.thread is None: a stopped generator stays
\* stopped
StartCheckOnce(c) ==
    /\ cpc[c] = "idle"
    /\ running \/ Unborn # {}
    /\ IF ~running /\ thread = 0
       THEN /\ cpc' = [cpc EXCEPT ![c] = "st_set"]
            /\ lastOp' = [lastOp EXCEPT ![c] = "start"]
       ELSE /\ cpc' = cpc
            /\ lastOp' = [lastOp EXCEPT ![c] = "start_noop"]
    /\ UNCHANGED <<running, thread, tstate, tdev, ttick, cthr, ticks, device_file,
                   current_data, history_ticks, failed, completed, stopView,
                   stopped, read_result>>
    /\ UNCHANGED <<cvars, avars, hvars, kvars, dvars>>

\* start(): if not self.running
StartCheck(c) ==
    /\ cpc[c] = "idle"
    /\ running \/ Unborn # {}
    /\ IF ~running
       THEN /\ cpc' = [cpc EXCEPT ![c] = "st_set"]
            /\ lastOp' = [lastOp EXCEPT ![c] = "start"]
       ELSE /\ cpc' = cpc
            /\ lastOp' = [lastOp EXCEPT ![c] = "start_noop"]
    /\ UNCHANGED <<running, thread, tstate, tdev, ttick, cthr, ticks, device_file,
                   current_data, history_ticks, failed, completed, stopView,
                   stopped, read_result>>
    /\ UNCHANGED <<cvars, avars, hvars, kvars, dvars>>

\* self.running = True
StartSet(c) ==
    /\ cpc[c] = "st_set"
    /\ running' = TRUE
    /\ cpc' = [cpc EXCEPT ![c] = "st_new"]
    /\ UNCHANGED <<thread, tstate, tdev, ttick, cthr, ticks, device_file,
                   current_data, history_ticks, failed, completed, lastOp,
                   stopView, stopped, read_result>>
    /\ UNCHANGED <<cvars, avars, hvars, kvars, dvars>>

\* self.thread = threading.Thread(target=self.generate_data); daemon = True
StartNew(c) ==
    /\ cpc[c] = "st_new"
    /\ Unborn # {}
    /\ LET t == CHOOSE u \in Unborn : \A w \in Unborn : u <= w
       IN  /\ thread' = t
           /\ tstate' = [tstate EXCEPT ![t] = "new"]
    /\ cpc' = [cpc EXCEPT ![c] = "st_start"]
    /\ UNCHANGED <<running, tdev, ttick, cthr, ticks, device_file, current_data,
                   history_ticks, failed, completed, lastOp, stopView, stopped,
                   read_result>>
    /\ UNCHANGED <<cvars, avars, hvars, kvars, dvars>>

\* self.thread.start(), and start() returns
StartRun(c) ==
    /\ cpc[c] = "st_start"
    /\ thread # 0
    /\ tstate[thread] = "new"
    /\ tstate' = [tstate EXCEPT ![thread] = "check"]
    /\ cpc' = [cpc EXCEPT ![c] = "idle"]
    /\ UNCHANGED <<running, thread, tdev, ttick, cthr, ticks, device_file,
                   current_data, history_ticks, failed, completed, lastOp,
                   stopView, stopped, read_result>>
    /\ UNCHANGED <<cvars, avars, hvars, kvars, dvars>>

\* stop(): if self.running
StopCheck(c) ==
    /\ cpc[c] = "idle"
    /\ IF running
       THEN /\ cpc' = [cpc EXCEPT ![c] = "sp_clear"]
            /\ lastOp' = [lastOp EXCEPT ![c] = "stop"]
            /\ stopView' = [stopView EXCEPT ![c] = InFlight]
       ELSE /\ cpc' = cpc
            /\ lastOp' = [lastOp EXCEPT ![c] = "stop_noop"]
            /\ stopView' = stopView
    /\ UNCHANGED <<running, thread, tstate, tdev, ttick, cthr, ticks, device_file,
                   current_data, history_ticks, failed, completed, stopped,
                   read_result>>
    /\ UNCHANGED <<cvars, avars, hvars, kvars, dvars>>

\* self.running = False
StopClear(c) ==
    /\ cpc[c] = "sp_clear"
    /\ running' = FALSE
    /\ cpc' = [cpc EXCEPT ![c] = "sp_join"]
    /\ UNCHANGED <<thread, tstate, tdev, ttick, cthr, ticks, device_file,
                   current_data, history_ticks, failed, completed, lastOp,
                   stopView, stopped, read_result>>
    /\ UNCHANGED <<cvars, avars, hvars, kvars, dvars>>

\* self.thread.join() is entered on the thread self.thread names now
StopJoin(c) ==
    /\ cpc[c] = "sp_join"
    /\ thread # 0
    /\ tstate[thread] # "new"
    /\ cthr' = [cthr EXCEPT ![c] = thread]
    /\ cpc' = [cpc EXCEPT ![c] = "sp_wait"]
    /\ UNCHANGED <<running, thread, tstate, tdev, ttick, ticks, device_file,
                   current_data, history_ticks, failed, completed, lastOp,
                   stopView, stopped, read_result>>
    /\ UNCHANGED <<cvars, avars, hvars, kvars, dvars>>

\* join() returns once the thread has ended, and stop() returns
StopReturn(c) ==
    /\ cpc[c] = "sp_wait"
    /\ tstate[cthr[c]] \in {"exited", "raised"}
    /\ stopped' = cthr[c]
    /\ cpc' = [cpc EXCEPT ![c] = "idle"]
    /\ UNCHANGED <<running, thread, tstate, tdev, ttick, cthr, ticks, device_file,
                   current_data, history_ticks, failed, completed, lastOp,
                   stopView, read_result>>
    /\ UNCHANGED <<cvars, avars, hvars, kvars, dvars>>

\* an exception leaves generate_data: the thread ends, self.running is not touched
Raise(t) ==
    /\ tstate' = [tstate EXCEPT ![t] = "raised"]
    /\ failed' = [failed EXCEPT ![t] = TRUE]
    /\ ttick' = [ttick EXCEPT ![t] = 0]
    /\ tdev' = [tdev EXCEPT ![t] = 1]

\* a loop that never looks at self.running
LoopCheckForever(t) ==
    /\ tstate[t] = "check"
    /\ ticks < MaxTicks
    /\ ticks' = ticks + 1
    /\ ttick' = [ttick EXCEPT ![t] = ticks + 1]
    /\ tdev' = [tdev EXCEPT ![t] = 1]
    /\ tstate' = [tstate EXCEPT ![t] = "device"]
    /\ UNCHANGED <<running, thread, cpc, cthr, device_file, current_data,
                   history_ticks, failed, completed, lastOp, stopView, stopped,
                   read_result>>
    /\ UNCHANGED <<cvars, avars, hvars, kvars, dvars>>

\* while self.running: a tick begins, or the loop and the thread end
LoopCheck(t) ==
    /\ tstate[t] = "check"
    /\ IF running
       THEN /\ ticks < MaxTicks
            /\ ticks' = ticks + 1
            /\ ttick' = [ttick EXCEPT ![t] = ticks + 1]
            /\ tdev' = [tdev EXCEPT ![t] = 1]
            /\ tstate' = [tstate EXCEPT ![t] = "device"]
       ELSE /\ tstate' = [tstate EXCEPT ![t] = "exited"]
            /\ UNCHANGED <<ticks, ttick, tdev>>
    /\ UNCHANGED <<running, thread, cpc, cthr, device_file, current_data,
                   history_ticks, failed, completed, lastOp, stopView, stopped,
                   read_result>>
    /\ UNCHANGED <<cvars, avars, hvars, kvars, dvars>>

\* one iteration of the for loop: generate_value and save_device_data
WriteDevice(t) ==
    /\ tstate[t] = "device"
    /\ device_file' = [device_file EXCEPT ![tdev[t]] = ttick[t]]
    /\ IF tdev[t] < LDev
       THEN tdev' = [tdev EXCEPT ![t] = tdev[t] + 1] /\ tstate' = tstate
       ELSE tdev' = [tdev EXCEPT ![t] = 1] /\
            tstate' = [tstate EXCEPT ![t] = "snapshot"]
    /\ UNCHANGED <<running, thread, ttick, cpc, cthr, ticks, current_data,
                   history_ticks, failed, completed, lastOp, stopView, stopped,
                   read_result>>
    /\ UNCHANGED <<cvars, avars, hvars, kvars, dvars>>

\* save_device_data raises: open(file_path, 'w') fails
WriteDeviceFails(t) ==
    /\ tstate[t] = "device"
    /\ Raise(t)
    /\ UNCHANGED <<running, thread, cpc, cthr, ticks, device_file, current_data,
                   history_ticks, completed, lastOp, stopView, stopped,
                   read_result>>
    /\ UNCHANGED <<cvars, avars, hvars, kvars, dvars>>

\* the file current_data.json right after open(current_data_path, 'w')
Opened(tick) == [exists |-> TRUE, tick |-> tick, closed |-> FALSE]

\* open(current_data_path, 'w'): the file is emptied
SnapshotOpen(t) ==
    /\ tstate[t] = "snapshot"
    /\ current_data' = Opened(ttick[t])
    /\ tstate' = [tstate EXCEPT ![t] = "dump"]
    /\ UNCHANGED <<running, thread, tdev, ttick, cpc, cthr, ticks, device_file,
                   history_ticks, failed, completed, lastOp, stopView, stopped,
                   read_result>>
    /\ UNCHANGED <<cvars, avars, hvars, kvars, dvars>>

\* json.dump(data_batch, file, indent=2) and the close of the with block
SnapshotClose(t) ==
    /\ tstate[t] = "dump"
    /\ current_data' = [exists |-> TRUE, tick |-> ttick[t], closed |-> TRUE]
    /\ tstate' = [tstate EXCEPT ![t] = "history"]
    /\ UNCHANGED <<running, thread, tdev, ttick, cpc, cthr, ticks, device_file,
                   history_ticks, failed, completed, lastOp, stopView, stopped,
                   read_result>>
    /\ UNCHANGED <<cvars, avars, hvars, kvars, dvars>>

\* the write of the snapshot raises: the file stays cut short
SnapshotFails(t) ==
    /\ tstate[t] = "dump"
    /\ Raise(t)
    /\ UNCHANGED <<running, thread, cpc, cthr, ticks, device_file, current_data,
                   history_ticks, completed, lastOp, stopView, stopped,
                   read_result>>
    /\ UNCHANGED <<cvars, avars, hvars, kvars, dvars>>

\* the history file after save_history_data, each entry a batch of
\* len(self.devices) records: max_records allows HPerDevice batches
HistoryBatches(tick) ==
    LET all == history_ticks \o <<tick>>
    IN  IF Len(all) > HPerDevice THEN NegSlice(all, HPerDevice) ELSE all

\* save_history_data(history_path, data_batch)
HistoryAppend(t) ==
    /\ tstate[t] = "history"
    /\ history_ticks' = HistoryBatches(ttick[t])
    /\ completed' = completed \cup {ttick[t]}
    /\ tstate' = [tstate EXCEPT ![t] = "sleep"]
    /\ UNCHANGED <<running, thread, tdev, ttick, cpc, cthr, ticks, device_file,
                   current_data, failed, lastOp, stopView, stopped, read_result>>
    /\ UNCHANGED <<cvars, avars, hvars, kvars, dvars>>

\* save_history_data raises
HistoryFails(t) ==
    /\ tstate[t] = "history"
    /\ Raise(t)
    /\ UNCHANGED <<running, thread, cpc, cthr, ticks, device_file, current_data,
                   history_ticks, completed, lastOp, stopView, stopped,
                   read_result>>
    /\ UNCHANGED <<cvars, avars, hvars, kvars, dvars>>

\* time.sleep(5) returns
Sleep(t) ==
    /\ tstate[t] = "sleep"
    /\ tstate' = [tstate EXCEPT ![t] = "check"]
    /\ ttick' = [ttick EXCEPT ![t] = 0]
    /\ UNCHANGED <<running, thread, tdev, cpc, cthr, ticks, device_file,
                   current_data, history_ticks, failed, completed, lastOp,
                   stopView, stopped, read_result>>
    /\ UNCHANGED <<cvars, avars, hvars, kvars, dvars>>

\* what json.load makes of current_data.json: the tick of the batch, or 0 for
\* the [] returned when the file is missing or json.load raises JSONDecodeError
Loaded ==
    IF current_data.exists /\ current_data.closed THEN current_data.tick ELSE 0

\* get_current_data(), called by the dashboard; `after` notes whether a tick
\* had completed, a loop was alive and no persistence call had failed
ReadCurrent ==
    /\ read_result' = [done |-> TRUE, tick |-> Loaded,
                       after |-> (completed # {} /\ Alive # {} /\
                                  \A t \in Threads : ~failed[t])]
    /\ UNCHANGED <<running, thread, tstate, tdev, ttick, cpc, cthr, ticks,
                   device_file, current_data, history_ticks, failed, completed,
                   lastOp, stopView, stopped>>
    /\ UNCHANGED <<cvars, avars, hvars, kvars, dvars>>

Init ==
    /\ ClassifyIdle
    /\ AnomalyIdle
    /\ HistoryIdle
    /\ LifeIdle
    /\ TickIdle
    /\ DayIdle

Next ==
    \/ \E c \in SoloCallers :
          \/ StartCheck(c)
          \/ StartSet(c)
          \/ StartNew(c)
          \/ StartRun(c)
          \/ StopCheck(c)
          \/ StopClear(c)
          \/ StopJoin(c)
          \/ StopReturn(c)
    \/ \E t \in Threads :
          \/ LoopCheck(t)
          \/ WriteDevice(t)
          \/ WriteDeviceFails(t)
          \/ SnapshotOpen(t)
          \/ SnapshotClose(t)
          \/ SnapshotFails(t)
          \/ HistoryAppend(t)
          \/ HistoryFails(t)
          \/ Sleep(t)
    \/ ReadCurrent

Spec == Init /\ [][Next]_vars

\* a step of the loop thread t
ThreadStep(t) ==
    \/ LoopCheck(t)
    \/ WriteDevice(t)
    \/ WriteDeviceFails(t)
    \/ SnapshotOpen(t)
    \/ SnapshotClose(t)
    \/ SnapshotFails(t)
    \/ HistoryAppend(t)
    \/ HistoryFails(t)
    \/ Sleep(t)

\* a step of caller c inside stop()
StopStep(c) ==
    \/ StopClear(c)
    \/ StopJoin(c)
    \/ StopReturn(c)

\* Spec with the scheduler's fairness: a thread that can run does run (the
\* loop thread, whose sleep returns, and a caller inside stop())
SpecFair ==
    /\ Spec
    /\ \A t \in Threads : WF_vars(ThreadStep(t))
    /\ \A c \in SoloCallers : WF_vars(StopStep(c))

-----------------------------------------------------------------------------
(* SpecDuo: two threads call start() and stop() on the same instance at    *)
(* any moment, each statement of the two methods a step of its own; the    *)
(* code takes no lock around the test of self.running, its assignment and  *)
(* the use of self.thread. No persistence call fails here: every thread    *)
(* that ends has left its loop through `while self.running`.               *)

\* self.thread.start() on a Thread object that another start() call has
\* started already: RuntimeError leaves start()
StartRunFails(c) ==
    /\ cpc[c] = "st_start"
    /\ thread # 0
    /\ tstate[thread] # "new"
    /\ cpc' = [cpc EXCEPT ![c] = "idle"]
    /\ lastOp' = [lastOp EXCEPT ![c] = "start_raised"]
    /\ UNCHANGED <<running, thread, tstate, tdev, ttick, cthr, ticks, device_file,
                   current_data, history_ticks, failed, completed, stopView,
                   stopped, read_result>>
    /\ UNCHANGED <<cvars, avars, hvars, kvars, dvars>>

\* self.thread.join() while self.thread is None (AttributeError) or names a
\* thread not started yet (RuntimeError): the exception leaves stop()
StopJoinFails(c) ==
    /\ cpc[c] = "sp_join"
    /\ IF thread = 0 THEN TRUE ELSE tstate[thread] = "new"
    /\ cpc' = [cpc EXCEPT ![c] = "idle"]
    /\ lastOp' = [lastOp EXCEPT ![c] = "stop_raised"]
    /\ UNCHANGED <<running, thread, tstate, tdev, ttick, cthr, ticks, device_file,
                   current_data, history_ticks, failed, completed, stopView,
                   stopped, read_result>>
    /\ UNCHANGED <<cvars, avars, hvars, kvars, dvars>>

\* a step of the loop thread t in which no persistence call raises
LoopStep(t) ==
    \/ LoopCheck(t)
    \/ WriteDevice(t)
    \/ SnapshotOpen(t)
    \/ SnapshotClose(t)
    \/ HistoryAppend(t)
    \/ Sleep(t)

NextDuo ==
    \/ \E c \in AllCallers :
          \/ StartCheck(c)
          \/ StartSet(c)
          \/ StartNew(c)
          \/ StartRun(c)
          \/ StartRunFails(c)
          \/ StopCheck(c)
          \/ StopClear(c)
          \/ StopJoin(c)
          \/ StopJoinFails(c)
          \/ StopReturn(c)
    \/ \E t \in Threads : LoopStep(t)

SpecDuo == Init /\ [][NextDuo]_vars

-----------------------------------------------------------------------------
(* SpecTick: one loop thread runs ticks over the first HDev devices and    *)
(* writes the readings to the three kinds of file, each write an open that *)
(* empties the file followed by a dump that may raise part-way; the        *)
(* dashboard's readers are called at any moment. The clock advances while  *)
(* the loop sleeps.                                                        *)

\* how much longer than TickInterval a time.sleep(5) can take
Oversleep == {0, 1}

\* sensor_data of the device at index k: lines 177-184
SensorData(k, v, status) ==
    [device_id |-> devices[k].device_id, value |-> v, status |-> status,
     timestamp |-> timestamp]

\* a file holding a complete dump of content
WholeFile(content) == [exists |-> TRUE, ok |-> TRUE, data |-> content]

\* the files a dump of content can leave when it raises part-way
CutShort(content) == {BrokenFile(SubSeq(content, 1, n)) : n \in 0..(Len(content) - 1)}

\* a loop that goes on appending to the batch of the tick before
TickStartKeepsBatch ==
    /\ apc = "loop"
    /\ tickNo < MaxTicks
    /\ timestamp' = now
    /\ data_batch' = data_batch
    /\ adev' = 1
    /\ tickNo' = tickNo + 1
    /\ apc' = "device"
    /\ UNCHANGED <<now, manual_anomalies, anomaly, wake, lastSet, sets>>
    /\ UNCHANGED <<cvars, hvars, lvars, kvars, dvars>>

\* while self.running: timestamp = time.time(); data_batch = []
TickStart ==
    /\ apc = "loop"
    /\ tickNo < MaxTicks
    /\ timestamp' = now
    /\ data_batch' = <<>>
    /\ adev' = 1
    /\ tickNo' = tickNo + 1
    /\ apc' = "device"
    /\ UNCHANGED <<now, manual_anomalies, anomaly, wake, lastSet, sets>>
    /\ UNCHANGED <<cvars, hvars, lvars, kvars, dvars>>

\* the reading generate_value gives for the device of the for loop
TickReading(noise) ==
    LET config == sensor_configs[devices[adev].type]
        v == SignalValue(config, 0, noise, FALSE, 1, 1200)
    IN  SensorData(adev, Round2(v), Status(config, v))

\* a loop body that goes from the last device straight to the history
TickDeviceSkipsSnapshot ==
    /\ apc = "device"
    /\ \E noise \in TickNoise :
         /\ data_batch' = Append(data_batch, TickReading(noise))
         /\ device_files' =
              [device_files EXCEPT ![adev] = WholeFile(<<TickReading(noise)>>)]
    /\ IF adev < HDev
       THEN adev' = adev + 1 /\ apc' = apc
       ELSE adev' = adev /\ apc' = "history"
    /\ UNCHANGED <<now, manual_anomalies, timestamp, anomaly, wake, tickNo,
                   lastSet, sets>>
    /\ UNCHANGED <<snapshot_file, reader>>
    /\ UNCHANGED <<cvars, hvars, lvars, dvars>>

\* one iteration of the for loop: generate_value, data_batch.append and
\* save_device_data
TickDevice ==
    /\ apc = "device"
    /\ \E noise \in TickNoise :
         /\ data_batch' = Append(data_batch, TickReading(noise))
         /\ device_files' =
              [device_files EXCEPT ![adev] = WholeFile(<<TickReading(noise)>>)]
    /\ IF adev < HDev
       THEN adev' = adev + 1 /\ apc' = apc
       ELSE adev' = adev /\ apc' = "snapshot"
    /\ UNCHANGED <<now, manual_anomalies, timestamp, anomaly, wake, tickNo,
                   lastSet, sets>>
    /\ UNCHANGED <<snapshot_file, reader>>
    /\ UNCHANGED <<cvars, hvars, lvars, dvars>>

\* save_device_data raises after its open has emptied the file: the exception
\* leaves generate_data and the thread ends
TickDeviceFails ==
    /\ apc = "device"
    /\ \E noise \in TickNoise :
         data_batch' = Append(data_batch, TickReading(noise))
    /\ device_files' = [device_files EXCEPT ![adev] = BrokenFile(<<>>)]
    /\ apc' = "raised"
    /\ UNCHANGED <<now, manual_anomalies, timestamp, adev, anomaly, wake, tickNo,
                   lastSet, sets>>
    /\ UNCHANGED <<snapshot_file, reader>>
    /\ UNCHANGED <<cvars, hvars, lvars, dvars>>

\* open(current_data_path, 'w'): the file is emptied
TickSnapshotOpen ==
    /\ apc = "snapshot"
    /\ snapshot_file' = BrokenFile(<<>>)
    /\ apc' = "dump"
    /\ UNCHANGED <<now, manual_anomalies, timestamp, adev, anomaly, data_batch,
                   wake, tickNo, lastSet, sets>>
    /\ UNCHANGED <<device_files, reader>>
    /\ UNCHANGED <<cvars, hvars, lvars, dvars>>

\* json.dump(data_batch, file, indent=2) and the close of the with block
TickSnapshotDump ==
    /\ apc = "dump"
    /\ snapshot_file' = WholeFile(data_batch)
    /\ apc' = "history"
    /\ UNCHANGED <<now, manual_anomalies, timestamp, adev, anomaly, data_batch,
                   wake, tickNo, lastSet, sets>>
    /\ UNCHANGED <<device_files, reader>>
    /\ UNCHANGED <<cvars, hvars, lvars, dvars>>

\* the dump of the snapshot raises part-way
TickSnapshotFails ==
    /\ apc = "dump"
    /\ snapshot_file' \in CutShort(data_batch)
    /\ apc' = "raised"
    /\ UNCHANGED <<now, manual_anomalies, timestamp, adev, anomaly, data_batch,
                   wake, tickNo, lastSet, sets>>
    /\ UNCHANGED <<device_files, reader>>
    /\ UNCHANGED <<cvars, hvars, lvars, dvars>>

\* save_history_data: the load of the file, [] when it is missing or
\* json.load raises JSONDecodeError
TickHistoryLoad ==
    /\ apc = "history"
    /\ history_data' = IF history_file.exists /\ history_file.ok
                       THEN history_file.data ELSE <<>>
    /\ apc' = "hwrite"
    /\ UNCHANGED <<now, manual_anomalies, timestamp, adev, anomaly, data_batch,
                   wake, tickNo, lastSet, sets>>
    /\ UNCHANGED <<history_file, hpc, hbatch, nextRec, saves, lastCall>>
    /\ UNCHANGED <<cvars, lvars, kvars, dvars>>

\* save_history_data: extend, the cut, and open(file_path, 'w')
TickHistoryOpen ==
    /\ apc = "hwrite"
    /\ history_data' = Extended(history_data, data_batch)
    /\ history_file' = BrokenFile(<<>>)
    /\ apc' = "hdump"
    /\ UNCHANGED <<now, manual_anomalies, timestamp, adev, anomaly, data_batch,
                   wake, tickNo, lastSet, sets>>
    /\ UNCHANGED <<hpc, hbatch, nextRec, saves, lastCall>>
    /\ UNCHANGED <<cvars, lvars, kvars, dvars>>

\* save_history_data: json.dump(history_data, file, indent=2); then
\* time.sleep(5) begins
TickHistoryDump ==
    /\ apc = "hdump"
    /\ history_file' = WholeFile(history_data)
    /\ history_data' = <<>>
    /\ wake' = now + TickInterval
    /\ apc' = "sleep"
    /\ UNCHANGED <<now, manual_anomalies, timestamp, adev, anomaly, data_batch,
                   tickNo, lastSet, sets>>
    /\ UNCHANGED <<hpc, hbatch, nextRec, saves, lastCall>>
    /\ UNCHANGED <<cvars, lvars, kvars, dvars>>

\* the dump of the history raises part-way
TickHistoryFails ==
    /\ apc = "hdump"
    /\ history_file' \in CutShort(history_data)
    /\ history_data' = <<>>
    /\ apc' = "raised"
    /\ UNCHANGED <<now, manual_anomalies, timestamp, adev, anomaly, data_batch,
                   wake, tickNo, lastSet, sets>>
    /\ UNCHANGED <<hpc, hbatch, nextRec, saves, lastCall>>
    /\ UNCHANGED <<cvars, lvars, kvars, dvars>>

\* time.sleep(5) returns, TickInterval seconds later or a little more
TickSleep ==
    /\ apc = "sleep"
    /\ \E late \in Oversleep : now' = wake + late
    /\ apc' = "loop"
    /\ UNCHANGED <<manual_anomalies, timestamp, adev, anomaly, data_batch, wake,
                   tickNo, lastSet, sets>>
    /\ UNCHANGED <<cvars, hvars, lvars, kvars, dvars>>

\* what `with open(path, 'r') as file: json.load(file)` does on a file
OpenAndLoad(file) ==
    IF ~file.exists THEN "FileNotFoundError"
    ELSE IF ~file.ok THEN "JSONDecodeError" ELSE "loaded"

\* a reader whose except clause names FileNotFoundError alone
ReaderCatchesNotFound == {"FileNotFoundError"}

\* except (json.JSONDecodeError, FileNotFoundError)
ReaderCatches == {"JSONDecodeError", "FileNotFoundError"}

\* the `hours` arguments tried
Hours == {1, 6}

RECURSIVE InsertAscending(_, _)
\* r put after the records whose timestamp is not greater
InsertAscending(sorted, r) ==
    IF sorted = <<>> \/ sorted[Len(sorted)].timestamp <= r.timestamp
    THEN Append(sorted, r)
    ELSE Append(InsertAscending(SubSeq(sorted, 1, Len(sorted) - 1), r),
                sorted[Len(sorted)])

RECURSIVE SortAscending(_)
\* list.sort(key=lambda x: x["timestamp"]): stable
SortAscending(seq) ==
    IF seq = <<>> THEN <<>>
    ELSE InsertAscending(SortAscending(SubSeq(seq, 1, Len(seq) - 1)),
                         seq[Len(seq)])

RECURSIVE InsertDescending(_, _)
\* r put after the records whose timestamp is not smaller
InsertDescending(sorted, r) ==
    IF sorted = <<>> \/ sorted[Len(sorted)].timestamp >= r.timestamp
    THEN Append(sorted, r)
    ELSE Append(InsertDescending(SubSeq(sorted, 1, Len(sorted) - 1), r),
                sorted[Len(sorted)])

RECURSIVE SortDescending(_)
\* list.sort(key=lambda x: x["timestamp"], reverse=True): stable
SortDescending(seq) ==
    IF seq = <<>> THEN <<>>
    ELSE InsertDescending(SortDescending(SubSeq(seq, 1, Len(seq) - 1)),
                          seq[Len(seq)])

\* what a reader returns, or that it raised: the file is skipped when it is
\* missing (os.path.exists) or when the load raises an exception the reader
\* catches; any other exception leaves the reader
ReaderResult(fn, file, wanted) ==
    LET found == OpenAndLoad(file)
    IN  [fn |-> fn,
         found |-> found,
         raised |-> file.exists /\ found # "loaded" /\ found \notin ReaderCatches,
         data |-> IF found = "loaded" THEN wanted ELSE <<>>]

\* get_current_data()
GetCurrentData ==
    /\ reader' = ReaderResult("get_current_data", snapshot_file, snapshot_file.data)
    /\ UNCHANGED <<snapshot_file, device_files>>
    /\ UNCHANGED <<cvars, avars, hvars, lvars, dvars>>

\* get_device_history(device_id, hours), with one history file in date_list
GetDeviceHistory ==
    /\ \E d \in {devices[k].device_id : k \in 1..HDev} \cup {UnknownId},
          hours \in Hours :
         LET Wanted(record) ==
                 record.device_id = d /\ record.timestamp >= now - hours * 3600
         IN  reader' = ReaderResult("get_device_history", history_file,
                           SortAscending(SelectSeq(history_file.data, Wanted)))
    /\ UNCHANGED <<snapshot_file, device_files>>
    /\ UNCHANGED <<cvars, avars, hvars, lvars, dvars>>

\* get_all_alerts(hours), with one history file in date_list
GetAllAlerts ==
    /\ \E hours \in Hours :
         LET Wanted(record) ==
                 record.status # "normal" /\
                 record.timestamp >= now - hours * 3600
         IN  reader' = ReaderResult("get_all_alerts", history_file,
                           SortDescending(SelectSeq(history_file.data, Wanted)))
    /\ UNCHANGED <<snapshot_file, device_files>>
    /\ UNCHANGED <<cvars, avars, hvars, lvars, dvars>>

InitTick ==
    /\ ClassifyIdle
    /\ AnomalyIdle
    /\ HistoryIdle
    /\ LifeIdle
    /\ TickIdle
    /\ DayIdle

NextTick ==
    \/ TickStart
    \/ TickDevice
    \/ TickDeviceFails
    \/ TickSnapshotOpen
    \/ TickSnapshotDump
    \/ TickSnapshotFails
    \/ TickHistoryLoad
    \/ TickHistoryOpen
    \/ TickHistoryDump
    \/ TickHistoryFails
    \/ TickSleep
    \/ GetCurrentData
    \/ GetDeviceHistory
    \/ GetAllAlerts

SpecTick == InitTick /\ [][NextTick]_vars

-----------------------------------------------------------------------------
(* SpecDay: one loop, started at any second of day 0, runs its ticks       *)
(* TickInterval seconds apart or a little more and appends each batch to   *)
(* the history file of the day of the tick. The day is scaled with the     *)
(* cap: as a day of 86400 s holds 24 * 60 * 60 / 5 = 17280 polling         *)
(* intervals, the day here holds HPerDevice of them.                       *)

\* the seconds of a day of HPerDevice polling intervals
DayLength == HPerDevice * TickInterval

\* the day of current_time.strftime('%Y%m%d') for the timestamp t
DayOf(t) == t \div DayLength

\* the batch of the tick with timestamp t: one record per device, the first
\* of every three devices critical, the second normal, the third a warning
BatchAt(t) ==
    [k \in 1..HDev |->
       [device_id |-> devices[k].device_id,
        value |-> IF k % 3 = 1 THEN 45000 ELSE IF k % 3 = 2 THEN 22000 ELSE 33000,
        status |-> IF k % 3 = 1 THEN "critical"
                   ELSE IF k % 3 = 2 THEN "normal" ELSE "warning",
        timestamp |-> t]]

\* while self.running: timestamp = time.time(); the for loop over the devices
DayTick ==
    /\ apc = "loop"
    /\ tickNo < MaxTicks
    /\ timestamp' = now
    /\ data_batch' = BatchAt(now)
    /\ tickNo' = tickNo + 1
    /\ apc' = "history"
    /\ UNCHANGED <<now, manual_anomalies, adev, anomaly, wake, lastSet, sets>>
    /\ UNCHANGED <<cvars, hvars, lvars, kvars, dvars>>

\* save_history_data(history_path, data_batch) on the file of the tick's day,
\* then time.sleep(5) begins
DaySave ==
    /\ apc = "history"
    /\ day_files' = [day_files EXCEPT ![DayOf(timestamp)] =
                        Extended(day_files[DayOf(timestamp)], data_batch)]
    /\ wake' = now + TickInterval
    /\ apc' = "sleep"
    /\ UNCHANGED <<now, manual_anomalies, timestamp, adev, anomaly, data_batch,
                   tickNo, lastSet, sets>>
    /\ UNCHANGED <<wall, query>>
    /\ UNCHANGED <<cvars, hvars, lvars, kvars>>

\* a sleep that returns a second before the interval is over
DaySleepShort ==
    /\ apc = "sleep"
    /\ \E late \in Oversleep : now' = wake - 1 + late
    /\ apc' = "loop"
    /\ UNCHANGED <<manual_anomalies, timestamp, adev, anomaly, data_batch, wake,
                   tickNo, lastSet, sets>>
    /\ UNCHANGED <<cvars, hvars, lvars, kvars, dvars>>

\* time.sleep(5) returns, TickInterval seconds later or a little more
DaySleep ==
    /\ apc = "sleep"
    /\ \E late \in Oversleep : now' = wake + late
    /\ apc' = "loop"
    /\ UNCHANGED <<manual_anomalies, timestamp, adev, anomaly, data_batch, wake,
                   tickNo, lastSet, sets>>
    /\ UNCHANGED <<cvars, hvars, lvars, kvars, dvars>>

\* the loop is started at some second of day 0, with no history file on disk
InitDay ==
    /\ ClassifyIdle
    /\ now \in 0..(DayLength - 1)
    /\ manual_anomalies = [d \in AnomalyIds |-> NoEntry]
    /\ apc = "loop"
    /\ timestamp = 0
    /\ adev = 1
    /\ anomaly = NoEntry
    /\ data_batch = <<>>
    /\ wake = 0
    /\ tickNo = 0
    /\ lastSet = [d \in AnomalyIds |-> NoSet]
    /\ sets = 0
    /\ HistoryIdle
    /\ LifeIdle
    /\ TickIdle
    /\ DayIdle

NextDay ==
    \/ DayTick
    \/ DaySave
    \/ DaySleep

SpecDay == InitDay /\ [][NextDay]_vars

-----------------------------------------------------------------------------
(* SpecReaders: the history readers of the dashboard, called with each of  *)
(* the windows the dashboard offers, at several times of day, on history   *)
(* files of the last days as the generator leaves them: each file holds    *)
(* the batches of the ticks of its day, oldest first, one record per       *)
(* device and tick. Day d is the seconds d * 86400 to (d + 1) * 86400 - 1. *)

\* the seconds of a day
DaySeconds == 24 * 60 * 60

\* the day number of strftime('%Y%m%d') at time t
DateOf(t) == t \div DaySeconds

\* datetime.hour at time t
HourOf(t) == (t % DaySeconds) \div 3600

\* hours_mapping: the windows of the dashboard, in hours
HoursOffered == {1, 6, 12, 24, 24 * 7}

\* the times of day at which the readers are called: 00:30, 06:00, 12:30, 23:30
TimesOfDay == {1800, 6 * 3600, 12 * 3600 + 1800, 23 * 3600 + 1800}

\* how long before the call the ticks on disk ran: 10 minutes, 5, 11 and 23
\* hours, 3 days, 7 days less an hour, 8 days
Ages == {600, 5 * 3600, 11 * 3600, 23 * 3600, 3 * DaySeconds,
         7 * DaySeconds - 3600, 8 * DaySeconds}

RECURSIVE BatchesOf(_)
\* the file the ticks with the timestamps of the set left: their batches,
\* the oldest first
BatchesOf(stamps) ==
    IF stamps = {} THEN <<>>
    ELSE LET first == CHOOSE t \in stamps : \A u \in stamps : t <= u
         IN  BatchAt(first) \o BatchesOf(stamps \ {first})

\* the content of history_<date>.json, nothing when os.path.exists is false
FileOf(date) == IF date \in DOMAIN day_files THEN day_files[date] ELSE <<>>

RECURSIVE LoadAll(_, _)
\* for date_str in date_list: json.load of each file that exists, the records
\* of the first n dates one after the other
LoadAll(date_list, n) ==
    IF n = 0 THEN <<>> ELSE LoadAll(date_list, n - 1) \o FileOf(date_list[n])

\* date_list of get_device_history: today, and yesterday if hours > 24 or
\* now.hour < hours
DeviceHistoryDates(hours) ==
    IF hours > 24 \/ HourOf(wall) < hours
    THEN <<DateOf(wall), DateOf(wall) - 1>>
    ELSE <<DateOf(wall)>>

\* date_list of get_all_alerts: today, and if hours > 24 the hours // 24 days
\* before it
AlertDates(hours) ==
    IF hours > 24
    THEN [i \in 1..((hours \div 24) + 1) |-> DateOf(wall) - (i - 1)]
    ELSE <<DateOf(wall)>>

\* get_device_history(device_id, hours)
GetDeviceHistoryDays ==
    /\ \E d \in {devices[k].device_id : k \in 1..HDev} \cup {UnknownId},
          hours \in HoursOffered :
         LET earliest_timestamp == wall - hours * 3600
             Wanted(record) ==
                 record.device_id = d /\ record.timestamp >= earliest_timestamp
             date_list == DeviceHistoryDates(hours)
         IN  query' = [fn |-> "get_device_history", device_id |-> d,
                       hours |-> hours,
                       data |-> SortAscending(
                                  SelectSeq(LoadAll(date_list, Len(date_list)),
                                            Wanted))]
    /\ UNCHANGED <<day_files, wall>>
    /\ UNCHANGED <<cvars, avars, hvars, lvars, kvars>>

\* get_all_alerts(hours)
GetAllAlertsDays ==
    /\ \E hours \in HoursOffered :
         LET earliest_timestamp == wall - hours * 3600
             Wanted(record) ==
                 record.status # "normal" /\
                 record.timestamp >= earliest_timestamp
             date_list == AlertDates(hours)
         IN  query' = [fn |-> "get_all_alerts", device_id |-> UnknownId,
                       hours |-> hours,
                       data |-> SortDescending(
                                  SelectSeq(LoadAll(date_list, Len(date_list)),
                                            Wanted))]
    /\ UNCHANGED <<day_files, wall>>
    /\ UNCHANGED <<cvars, avars, hvars, lvars, kvars>>

\* today is day MaxDays; the generator ran at some of the Ages before the call
InitReaders ==
    /\ ClassifyIdle
    /\ AnomalyIdle
    /\ HistoryIdle
    /\ LifeIdle
    /\ TickIdle
    /\ wall \in {MaxDays * DaySeconds + t : t \in TimesOfDay}
    /\ \E ran \in SUBSET Ages :
          day_files = [d \in 0..MaxDays |->
                         BatchesOf({wall - a : a \in {b \in ran : DateOf(wall - b) = d}})]
    /\ query = NoQuery

NextReaders ==
    \/ GetDeviceHistoryDays
    \/ GetAllAlertsDays

SpecReaders == InitReaders /\ [][NextReaders]_vars

-----------------------------------------------------------------------------
(* Claims on the catalog *)

\* C21: for every sensor type warning.min <= normal.min <= normal.max <=
\* warning.max; the catalog holds 3 devices of each of the 6 types, 18 in all,
\* with pairwise different ids <type>_<NN>, NN from 01 to 03, each id built
\* from the type of its device; and in every state reached by start, stop and
\* the ticks the loops index that same catalog.
C21_CatalogFixed ==
    /\ \A t \in TypeSet :
          /\ sensor_configs[t].warning_range[1] <= sensor_configs[t].normal_range[1]
          /\ sensor_configs[t].normal_range[1] <= sensor_configs[t].normal_range[2]
          /\ sensor_configs[t].normal_range[2] <= sensor_configs[t].warning_range[2]
    /\ Cardinality(TypeSet) = 6
    /\ Len(devices) = 18
    /\ \A t \in TypeSet :
          Cardinality({devices[k].device_id :
                          k \in {j \in DOMAIN devices : devices[j].type = t}}) = 3
    /\ \A k \in DOMAIN devices :
          /\ devices[k].type \in TypeSet
          /\ devices[k].device_id[1] = devices[k].type
          /\ devices[k].device_id[2] \in 1..3
    /\ \A j, k \in DOMAIN devices :
          j # k => devices[j].device_id # devices[k].device_id
    /\ \A t \in Threads : tdev[t] \in DOMAIN devices

\* C21 witness: a loop was started, completed a tick and was stopped
C21_Witness ==
    /\ stopped > 0
    /\ completed # {}
    /\ ~running
    /\ Alive = {}

-----------------------------------------------------------------------------
(* Claims on the manual anomalies *)

CatalogIds == {devices[k].device_id : k \in 1..NDev}

\* C1: an install is never lost under any interleaving of add_manual_anomaly
\* with the loop's consult: from the moment the latest set(d, V, D) of a
\* catalog device has completed until its end_time T+D has passed, the table
\* holds the entry {V, T+D}.
C1_InstallNotLost ==
    \A d \in CatalogIds :
        (lastSet[d].set /\ now <= lastSet[d].end_time) =>
            manual_anomalies[d] =
                [value |-> lastSet[d].value, end_time |-> lastSet[d].end_time,
                 set |-> TRUE]

\* the readings the signal path can produce for the device at index k
SignalReadings(k) ==
    {[device_id |-> devices[k].device_id,
      value |-> Round2(SignalValue(sensor_configs[devices[k].type], 0, noise,
                                   FALSE, 1, 1200)),
      status |-> Status(sensor_configs[devices[k].type],
                        SignalValue(sensor_configs[devices[k].type], 0, noise,
                                    FALSE, 1, 1200))] : noise \in TickNoise}

\* C5: for the latest install (V, D at time T) of a device, every tick begun
\* after it with timestamp <= T+D reports exactly (V, critical) for the device,
\* and every tick with timestamp > T+D reports a signal-path reading.
C5_OverrideWindow ==
    \A i \in 1..Len(data_batch) :
        LET r  == data_batch[i]
            ls == lastSet[r.device_id]
        IN  (ls.set /\ ls.tick < tickNo) =>
                IF timestamp <= ls.end_time
                THEN r.value = ls.value /\ r.status = "critical"
                ELSE r \in SignalReadings(i)

\* the entry a call recorded in lastSet stores
EntryOf(ls) == [value |-> ls.value, end_time |-> ls.end_time, set |-> TRUE]

\* C11: the table is keyed by device id, and a call add_manual_anomaly(d, V2,
\* D2) leaves for d exactly the entry {V2, T2+D2}, whatever entry d had, and
\* every other id's entry as it was; in every tick begun after the call, a
\* reading of d that is not a signal-path reading is (V2, critical) with the
\* tick's timestamp <= T2+D2: nothing of the replaced entry is used, also when
\* T2+D2 is earlier than the replaced end_time.
C11_AddReplaces ==
    [][/\ sets' # sets =>
            \E d \in AnomalyIds :
                /\ lastSet'[d] # lastSet[d]
                /\ manual_anomalies'[d] = EntryOf(lastSet'[d])
                /\ \A e \in AnomalyIds \ {d} :
                      manual_anomalies'[e] = manual_anomalies[e]
       /\ \A i \in 1..Len(data_batch') :
            LET r  == data_batch'[i]
                ls == lastSet'[r.device_id]
            IN  (ls.set /\ ls.tick < tickNo' /\ r \notin SignalReadings(i)) =>
                    /\ r.value = ls.value
                    /\ r.status = "critical"
                    /\ timestamp' <= ls.end_time]_vars

\* C11 witness: the latest call replaced an entry that ended later than the
\* new one, and a tick begun after it, with a timestamp past the new end_time,
\* produced a signal-path reading
C11_Witness ==
    \E i \in 1..Len(data_batch) :
        LET r  == data_batch[i]
            ls == lastSet[r.device_id]
        IN  /\ ls.set
            /\ ls.tick < tickNo
            /\ ls.shortened
            /\ timestamp > ls.end_time
            /\ r \in SignalReadings(i)

\* an entry of the table that had expired when the tick took its timestamp
Stale(d) == manual_anomalies[d].set /\ manual_anomalies[d].end_time < timestamp

\* C12 as stated: when a tick has generated its last device, no entry of the
\* table, whatever its id, has an end_time before the tick's timestamp: the
\* first tick after the expiry has deleted it.
C12_EveryEntryEvicted ==
    apc = "persist" => \A d \in AnomalyIds : ~Stale(d)

\* C12 as amended: the same for the entries whose device id is in the catalog;
\* no complete tick passes between the expiry of such an entry and its removal.
C12_CatalogEntryEvicted ==
    apc = "persist" => \A d \in CatalogIds : ~Stale(d)

\* C12 witness: a tick begun after the latest install of a catalog device had
\* expired has generated its devices, and the entry is gone
C12_Witness ==
    /\ apc = "persist"
    /\ \E d \in CatalogIds :
          /\ lastSet[d].set
          /\ lastSet[d].tick < tickNo
          /\ lastSet[d].end_time < timestamp
          /\ ~manual_anomalies[d].set

\* C13: add_manual_anomaly with an id that is in no catalog entry stores its
\* entry under that id and changes neither the entry of any catalog device
\* nor the state of the loop; every reading of every tick is of a catalog
\* device, and is a signal-path reading or carries a value other than the one
\* stored under the unknown id.
C13_UnknownIdNoEffect ==
    [][/\ lastSet'[UnknownId] # lastSet[UnknownId] =>
            /\ manual_anomalies'[UnknownId] = EntryOf(lastSet'[UnknownId])
            /\ \A d \in CatalogIds : manual_anomalies'[d] = manual_anomalies[d]
            /\ UNCHANGED <<apc, timestamp, adev, anomaly, data_batch, wake, tickNo>>
       /\ \A i \in 1..Len(data_batch') :
            LET r == data_batch'[i]
            IN  /\ r.device_id = devices[i].device_id
                /\ (lastSet'[UnknownId].set /\ r \notin SignalReadings(i)) =>
                       r.value # lastSet'[UnknownId].value]_vars

\* C13 witness: an entry stored under the unknown id before the tick began is
\* still active at the tick's timestamp, no call was made for the device, and
\* the tick produced its signal-path reading
C13_Witness ==
    /\ lastSet[UnknownId].set
    /\ manual_anomalies[UnknownId] = EntryOf(lastSet[UnknownId])
    /\ lastSet[UnknownId].tick < tickNo
    /\ timestamp <= lastSet[UnknownId].end_time
    /\ Len(data_batch) = NDev
    /\ \A i \in 1..NDev :
          ~lastSet[devices[i].device_id].set /\ data_batch[i] \in SignalReadings(i)

\* C18: every reading a tick persists (the readings of data_batch, which go
\* to the per-device files, current_data.json and the history file) has a
\* value with at most 2 decimals and a status among normal, warning and
\* critical, on the signal path and on the manual-anomaly path alike.
C18_PersistedRounded ==
    \A i \in 1..Len(data_batch) :
        /\ data_batch[i].value % 10 = 0
        /\ data_batch[i].status \in {"normal", "warning", "critical"}

-----------------------------------------------------------------------------
(* Claims on the classification *)

InNormal(config, v) ==
    config.normal_range[1] <= v /\ v <= config.normal_range[2]

OutsideWarning(config, v) ==
    v < config.warning_range[1] \/ v > config.warning_range[2]

\* the three-way split the specification states, applied to v
SplitAgrees(config, v, status) ==
    /\ status \in {"normal", "warning", "critical"}
    /\ (status = "normal") <=> InNormal(config, v)
    /\ (status = "critical") <=> OutsideWarning(config, v)
    /\ (status = "warning") <=> (~InNormal(config, v) /\ ~OutsideWarning(config, v))

\* C6: in every reading generate_value returns on the signal path, the status
\* agrees with the thresholds applied to the returned (2-decimal) value.
C6_StatusMatchesReturnedValue ==
    result # NoResult =>
        SplitAgrees(sensor_configs[sensor_type], result.value, result.status)

\* C7: the status assigned to the input value v (the value before rounding) is
\* normal iff normal.min <= v <= normal.max, critical iff v is outside the
\* warning range, warning otherwise, for every sensor type: exactly one status.
C7_ThreeWaySplit ==
    result # NoResult =>
        SplitAgrees(sensor_configs[sensor_type], value, result.status)

\* C7 witness: a value exactly on normal.max was classified, and is normal
C7_Witness ==
    /\ result # NoResult
    /\ value = sensor_configs[sensor_type].normal_range[2]
    /\ result.status = "normal"

\* C30: when base_value + trend + noise lies within the normal range and the
\* random anomaly fires (the value then differs from that sum by the
\* magnitude, between 1.2 and 1.5 times the normal width, in either
\* direction), the status returned is warning or critical, never normal, for
\* every sensor type.
C30_AnomalyLeavesNormal ==
    LET config == sensor_configs[sensor_type]
        v0     == config.base_value + trend_component + random_component
        width  == config.normal_range[2] - config.normal_range[1]
        moved  == IF value > v0 THEN value - v0 ELSE v0 - value
    IN  (result # NoResult /\ value # v0) =>
            /\ 1200 * width <= 1000 * moved
            /\ 1000 * moved <= 1500 * width
            /\ InNormal(config, v0) => result.status \in {"warning", "critical"}

\* C30 witness: a sum exactly on normal.max was pushed down by the smallest
\* magnitude, and the reading is a warning
C30_Witness ==
    LET config == sensor_configs[sensor_type]
        v0     == config.base_value + trend_component + random_component
    IN  /\ result # NoResult
        /\ v0 = config.normal_range[2]
        /\ 1000 * (v0 - value) = 1200 * (config.normal_range[2] - config.normal_range[1])
        /\ result.status = "warning"

-----------------------------------------------------------------------------
(* Claims on the history file *)

\* C8: a history file never holds more than max_records entries, and when the
\* entries loaded plus the batch exceed max_records, a completed call leaves
\* exactly the last max_records of (loaded entries followed by the batch), in
\* their order: only the oldest are dropped.
C8_HistoryCap ==
    /\ Len(history_file.data) <= max_records
    /\ (lastCall.done /\ hpc = "idle" /\ history_file.exists /\ history_file.ok) =>
          LET all  == lastCall.existing \o lastCall.batch
              drop == Len(all) - max_records
          IN  drop > 0 =>
                /\ Len(history_file.data) = max_records
                /\ \A i \in 1..max_records : history_file.data[i] = all[i + drop]

\* C8 witness: a call has completed whose loaded entries plus batch exceeded
\* max_records, and its result is in the file
C8_Witness ==
    /\ lastCall.done
    /\ hpc = "idle"
    /\ history_file.ok
    /\ Len(lastCall.existing) + Len(lastCall.batch) > max_records

\* C14: a call of save_history_data that finds no file under file_path, or
\* opens a file json.load cannot parse, raises nothing there and goes on with
\* an empty list, and its write leaves a well-formed array holding exactly
\* the new batch (which the cap does not shorten): nothing of the unparseable
\* file is kept.
C14_BadFileIsEmptyLog ==
    [][/\ (hpc = "idle" /\ hpc' # "idle" /\ Found = "missing") =>
            (hpc' = "write" /\ history_data' = <<>>)
       /\ (hpc = "load" /\ hpc' # "load" /\ Found = "broken") =>
            (hpc' = "write" /\ history_data' = <<>>)
       /\ (hpc = "write" /\ lastCall.found \in {"missing", "broken"} /\
           lastCall'.done) =>
            history_file' = [exists |-> TRUE, ok |-> TRUE, data |-> hbatch]]_vars

\* C14 witness: a call that found a file cut short with records in it has
\* completed, and the file holds exactly its batch
C14_Witness ==
    /\ lastCall.done
    /\ lastCall.found = "broken"
    /\ hpc = "idle"
    /\ history_file = [exists |-> TRUE, ok |-> TRUE, data |-> lastCall.batch]
    /\ lastCall.batch # <<>>

\* the tick that produced record r: the records are numbered in the order the
\* loop produces them, HDev to a tick, and all records of a tick carry the
\* tick's timestamp
RecordTick(r) == ((r - 1) \div HDev) + 1

\* C17: in every history file, also one cut short by a failed write, the
\* records are in the order they were produced and their ticks (hence their
\* timestamps) are non-decreasing from the first entry to the last, after any
\* sequence of calls, truncations to the cap and removals of the file.
C17_HistoryOrdered ==
    \A i, j \in 1..Len(history_file.data) :
        i < j => /\ history_file.data[i] < history_file.data[j]
                 /\ RecordTick(history_file.data[i]) <=
                       RecordTick(history_file.data[j])

\* C17 witness: a call that cut the list to the cap has completed and the file
\* holds records of more than one tick
C17_Witness ==
    /\ lastCall.done
    /\ hpc = "idle"
    /\ history_file.ok
    /\ Len(lastCall.existing) + Len(lastCall.batch) > max_records
    /\ Len(history_file.data) = max_records
    /\ RecordTick(history_file.data[1]) < RecordTick(history_file.data[max_records])

\* C28: a history file that is created where none was (the dashboard has
\* removed it, or none had been written yet) holds records of the batch being
\* saved only: no record that was in the file before its removal is in it
\* again, under every interleaving of the removal with the load, extend and
\* rewrite of save_history_data.
C28_ClearNotUndone ==
    [][(~history_file.exists /\ history_file'.exists) =>
          \A i \in 1..Len(history_file'.data) :
              \E j \in 1..Len(hbatch) : history_file'.data[i] = hbatch[j]]_vars

-----------------------------------------------------------------------------
(* Claims on the files of a tick and their readers *)

\* C15: when a tick has completed without error, current_data.json is a
\* well-formed array holding exactly that tick's batch: one reading per
\* catalog device, in catalog order, each with the tick's timestamp, its
\* length the device count, after any number of ticks.
C15_SnapshotIsTickBatch ==
    (apc \in {"sleep", "loop"} /\ tickNo > 0) =>
        /\ snapshot_file = WholeFile(data_batch)
        /\ Len(snapshot_file.data) = HDev
        /\ \A i \in 1..Len(snapshot_file.data) :
              /\ i <= HDev
              /\ snapshot_file.data[i].device_id = devices[i].device_id
              /\ snapshot_file.data[i].timestamp = timestamp

\* C15 witness: a second or later tick has completed without error
C15_Witness ==
    /\ apc = "sleep"
    /\ tickNo > 1
    /\ snapshot_file.ok
    /\ Len(snapshot_file.data) = HDev

\* the last Len(batch) records of a list are the batch
EndsWith(seq, batch) ==
    /\ Len(seq) >= Len(batch)
    /\ SubSeq(seq, Len(seq) - Len(batch) + 1, Len(seq)) = batch

C20_ReadersNeverFail ==
    /\ ~reader.raised
    /\ reader.found # "loaded" => reader.data = <<>>

\* C20 witness: with the loop alive and no write failed, a history reader met
\* the file in the middle of its rewrite and returned []
C20_Witness ==
    /\ reader.fn = "get_all_alerts"
    /\ reader.found = "JSONDecodeError"
    /\ reader.data = <<>>
    /\ ~reader.raised
    /\ apc # "raised"

-----------------------------------------------------------------------------
(* Claims on the history readers *)

\* the records of all history files on disk
AllRecords ==
    UNION {{day_files[d][i] : i \in 1..Len(day_files[d])} : d \in DOMAIN day_files}

\* C24: get_device_history(device_id, hours) returns exactly the records of
\* the device, over all history files, with timestamp >= now - hours, each
\* once, in ascending order of timestamp, for each window the dashboard
\* offers and each time of day.
C24_DeviceHistoryComplete ==
    query.fn = "get_device_history" =>
        LET want == {r \in AllRecords :
                        /\ r.device_id = query.device_id
                        /\ r.timestamp >= wall - query.hours * 3600}
        IN  /\ {query.data[i] : i \in 1..Len(query.data)} = want
            /\ Len(query.data) = Cardinality(want)
            /\ \A i, j \in 1..Len(query.data) :
                  i < j => query.data[i].timestamp <= query.data[j].timestamp

\* C25: get_all_alerts(hours) returns exactly the warning and critical
\* records, over all history files, with timestamp >= now - hours, each once,
\* the newest first; for hours = 24 those written yesterday less than 24
\* hours ago are among them.
C25_AlertsComplete ==
    query.fn = "get_all_alerts" =>
        LET want == {r \in AllRecords :
                        /\ r.status # "normal"
                        /\ r.timestamp >= wall - query.hours * 3600}
        IN  /\ {query.data[i] : i \in 1..Len(query.data)} = want
            /\ Len(query.data) = Cardinality(want)
            /\ \A i, j \in 1..Len(query.data) :
                  i < j => query.data[i].timestamp >= query.data[j].timestamp

-----------------------------------------------------------------------------
(* Claims on start, stop, the loop and the snapshot *)

\* C2: when stop() is called while a tick is executing, that tick's per-device
\* writes, snapshot write and history append have all completed when stop()
\* returns, and at that return no loop is alive and the flag is down, so no
\* further tick starts and no file is written.
C2_StopWaitsForTick ==
    [][\A c \in AllCallers :
          (cpc[c] = "sp_wait" /\ cpc'[c] = "idle") =>
              /\ stopView[c] \subseteq completed'
              /\ Alive' = {}
              /\ ~running']_vars

\* C3: a persistence call that raised during a tick of the current loop
\* thread, with the generator running and no stop() called since it was
\* started, leaves that loop alive (so a later tick can follow).
C3_LoopSurvivesFailure ==
    \A t \in Threads :
        (failed[t] /\ running /\ thread = t /\
         \A c \in AllCallers : cpc[c] = "idle" /\ lastOp[c] # "stop") =>
            tstate[t] \in AliveStates

\* C4: a get_current_data() made while a loop is running, after a first tick
\* has completed and with no persistence failure so far, returns a complete
\* batch, never [].
C4_ReaderNeverEmpty ==
    (read_result.done /\ read_result.after) => read_result.tick > 0

\* C9 as stated: once stop() has returned, no thread is ever created by a
\* later start() on the instance.
C9_StoppedIsTerminal ==
    stopped > 0 => \A t \in Threads : t > stopped => tstate[t] = "unborn"

\* C9 as amended: stop() returns with the flag down; a start() called after
\* that, finding the flag down, takes its spawning branch; and when it returns
\* the flag is up and a new thread, created after the stopped one, runs the
\* sampling loop.
C9_RestartSpawns ==
    [][\A c \in AllCallers :
          /\ (cpc[c] = "sp_wait" /\ cpc'[c] = "idle") => ~running'
          /\ (stopped > 0 /\ cpc[c] = "idle" /\ ~running /\ lastOp[c] = "stop" /\
              lastOp'[c] \in {"start", "start_noop"}) =>
                (lastOp'[c] = "start" /\ cpc'[c] = "st_set")
          /\ (stopped > 0 /\ cpc[c] = "st_start" /\ cpc'[c] = "idle") =>
                (running' /\ thread' > stopped /\ tstate'[thread'] = "check")]_vars

\* C9 witness: after a stop() has returned, a thread created later is inside
\* a tick, about to append to the history
C9_Witness ==
    /\ stopped > 0
    /\ \E t \in Threads : t > stopped /\ tstate[t] = "history"

\* C10: a call of start() that finds self.running set returns without
\* touching self.thread, self.running or any thread, and exactly one sampling
\* loop is executing.
C10_StartIdempotent ==
    [][\A c \in AllCallers :
          (cpc[c] = "idle" /\ lastOp[c] # "start_noop" /\
           lastOp'[c] = "start_noop") =>
              /\ thread' = thread
              /\ running' = running
              /\ tstate' = tstate
              /\ Cardinality(Alive') = 1]_vars

\* C26: whenever self.running is True, the thread self.thread names is alive,
\* or a start() call is between setting the flag and starting its thread;
\* this after any tick outcome, a tick that ended with an exception included.
C26_RunningMeansAlive ==
    running =>
        \/ thread # 0 /\ tstate[thread] \in AliveStates
        \/ \E c \in AllCallers : cpc[c] \in {"st_new", "st_start"}

\* C27: at most one sampling loop of the instance is alive at any time, under
\* every interleaving of the start() and stop() calls of two threads.
C27_OneLoopAlive ==
    Cardinality(Alive) <= 1

\* C22: when a call of stop() returns (after its join, or at once because it
\* found the flag down) and the flag is down at that return, no thread is
\* executing a tick.
C22_StopReturnsAfterExit ==
    [][\A c \in AllCallers :
          (/\ \/ cpc[c] = "sp_wait" /\ cpc'[c] = "idle"
              \/ cpc[c] = "idle" /\ lastOp[c] # "stop_noop" /\
                 lastOp'[c] = "stop_noop"
           /\ ~running') =>
              \A t \in Threads : tstate'[t] \notin TickStates]_vars

\* C23: while a loop sleeps after a tick that completed without error, every
\* per-device file holds the reading of that tick, and current_data.json is
\* the complete batch of that same tick.
C23_DeviceFilesMatchSnapshot ==
    \A t \in Threads :
        tstate[t] = "sleep" =>
            /\ \A k \in 1..LDev : device_file[k] = ttick[t]
            /\ current_data = [exists |-> TRUE, tick |-> ttick[t], closed |-> TRUE]

\* C19: a stop() that found the generator running returns (the loop thread
\* and the caller being scheduled fairly); while it waits in join no tick
\* begins, so it waits for no more than the tick in flight and its sleep; a
\* stop() that finds the generator not running returns at once, never
\* entering the join.
C19_StopTerminates ==
    /\ \A c \in SoloCallers : (cpc[c] = "sp_clear") ~> (cpc[c] = "idle")
    /\ [][\A c \in SoloCallers :
            /\ cpc[c] \in {"sp_join", "sp_wait"} => ticks' = ticks
            /\ (cpc[c] = "idle" /\ ~running) =>
                  cpc'[c] \notin {"sp_clear", "sp_join", "sp_wait"}]_vars

\* C19 witness: a stop() called with a tick in flight has returned
C19_Witness ==
    \E c \in SoloCallers :
        /\ cpc[c] = "idle"
        /\ lastOp[c] = "stop"
        /\ stopView[c] # {}
        /\ stopped > 0
        /\ ~running

=============================================================================
